---- MODULE Spec2Model ----
(***************************************************************************)
(* Model of the ore-pool operator server: the contribute handler           *)
(* (server/src/contribute.rs) and the round driver with its aggregator     *)
(* (server/src/aggregator.rs), on the lock and the unbounded contribution  *)
(* channel that main builds (server/src/main.rs); and, apart, the handler  *)
(* on the bounded channel its signature asks for (SpecIngress).            *)
(*                                                                         *)
(* Each task moves in steps that end where it awaits: the aggregator lock, *)
(* the contribution channel, the timer, a chain call.  The lock is fair:   *)
(* it is granted in the order in which it was asked for.                   *)
(*                                                                         *)
(* Time is abstracted: the timeout of process_contributions expires at any *)
(* moment at which the channel is empty, and the time elapsed while the    *)
(* driver waits is a nondeterministic choice.  Chain RPC calls return      *)
(* nondeterministically an error, a fresh read or a read that has not yet  *)
(* observed the last on-chain advance.                                     *)
(***************************************************************************)
EXTENDS Integers, Sequences, FiniteSets, TLC

\* ------------------------------------------------------------------ bounds
MaxRounds == 2
MaxQueue == 2
MaxDispatch == 2
MinDifficulty == 8
MaxBuses == 3
MaxBalance == 2
\* The capacity of the contribution channel when it is a bounded one.
ChannelCapacity == 1

\* ------------------------------------------------------- program constants
U64Bits == 64
max_retries == 10

\* The member keys.
Members == {1, 2}

\* ------------------------------------------------------------ u64 numbers
\* A u64 is a little-endian sequence of NumLimbs limbs of LimbBits bits, so
\* that the arithmetic of the program keeps its width.
LimbBits == U64Bits \div 4
NumLimbs == U64Bits \div LimbBits
LimbBase == 2 ^ LimbBits

\* A function over 1..n as an explicit sequence, its elements evaluated once.
AsSeq(f) == f \o << >>

ZeroLimbs(n) == AsSeq([i \in 1..n |-> 0])
U64Zero == ZeroLimbs(NumLimbs)

RECURSIVE Carry(_, _, _)
Carry(a, b, i) ==
    IF i = 0 THEN 0 ELSE (a[i] + b[i] + Carry(a, b, i - 1)) \div LimbBase

\* Addition of two numbers of Len(a) limbs, modulo LimbBase^Len(a).
AddLimbs(a, b) ==
    AsSeq([i \in 1..Len(a) |-> (a[i] + b[i] + Carry(a, b, i - 1)) % LimbBase])

\* u64 `+` as the release build computes it (modulo 2^64).
U64Add(a, b) == AddLimbs(a, b)

\* 2u64.pow(d) modulo 2^64: one bit in limb d / LimbBits, 0 when d >= 64.
U64Pow2(d) ==
    AsSeq([i \in 1..NumLimbs |->
            IF i - 1 = d \div LimbBits THEN 2 ^ (d % LimbBits) ELSE 0])

U64IsZero(a) == \A i \in 1..Len(a) : a[i] = 0

\* ------------------------------------------------------------- data types
None == << >>
Some(x) == << x >>

\* Values the hash of a solution can have as its difficulty: one below the
\* pool minimum, the minimum, and the largest whose score fits in a u64.
Difficulties == {MinDifficulty - 1, MinDifficulty, U64Bits - 1}

CutoffTimes == {0, 1}

\* A drillx solution is a record [c, d, n]: the challenge its digest is valid
\* for, the difficulty of its hash, and its nonce.

\* solution.to_hash().difficulty()
Difficulty(solution) == solution.d

\* Mutant: the digest is not checked.
IsValidDigestUnchecked(challenge_digest, solution) == TRUE

\* drillx::is_valid_digest(&challenge, &solution.n, &solution.d)
IsValidDigest(challenge_digest, solution) == solution.c = challenge_digest

\* The payloads of /contribute while ch is the stored challenge: a solution
\* mined for that challenge or for the one after it, by a member with its
\* own nonces.  `signature` tells whether the signature verifies for
\* (authority, solution).
Payloads(ch) ==
    { [authority |-> m, solution |-> [c |-> c, d |-> d, n |-> m],
       signature |-> s] :
        m \in Members, c \in {ch.challenge, ch.challenge + 1},
        d \in Difficulties, s \in BOOLEAN }

\* proof.challenge of the on-chain round whose pool.last_hash_at is h
ChallengeAt(h) == h

\* The HTTP workers that run contribute, each for the member of its number.
Handlers == Members

\* Those that take the aggregator lock.
Party(kind, id) == [kind |-> kind, id |-> id]
NoParty == Party("none", 0)
Driver == Party("driver", 0)
AttributionTask == Party("attribution", 0)
Handler(h) == Party("handler", h)

\* No handler is running, nobody holds or awaits the aggregator lock, and
\* the driver has no received contribution in hand.  The contribution
\* channel is the unbounded one of main.rs:29.
IngressIdle ==
    [holder |-> [kind |-> "none", id |-> 0], waiters |-> << >>,
     handlers |-> [h \in Handlers |-> [st |-> "idle"]],
     held |-> << >>, bounded |-> FALSE]

\* The same with the bounded channel of the `tx` of contribute
\* (contribute.rs:25).
IngressIdleBounded == [IngressIdle EXCEPT !.bounded = TRUE]

\* No handler has returned in the step.
NoResponse == 0

VARIABLES
    challenge,      \* Aggregator.challenge
    contributions,  \* Aggregator.contributions
    total_score,    \* Aggregator.total_score (u64)
    winner,         \* Aggregator.winner (Option<Winner>)
    rewards_rx,     \* Aggregator.rewards_rx: rewards events not yet received
    rx,             \* the contribution channel
    pc,             \* position of process_contributions
    last_hash_at,   \* pool.last_hash_at on chain
    response,       \* status a handler returned in the last step (0: none did)
    log,            \* the error lines the last step of the driver logged
    dispatched,     \* history: bundles dispatched for the stored challenge
    landed,         \* history: of these, the bundles that landed on chain
    confirmed,      \* history: a submission of the stored challenge was confirmed
    received,       \* history: the rewards event of the stored challenge was received
    written,        \* history: attributions of the stored challenge handed to the database
    rx_closed,      \* every sender of the contribution channel has been dropped
    rewards_closed, \* every sender of the rewards channel has been dropped
    attribution,    \* position of the periodic attribution task
    call,           \* a call of a pure function: its arguments and its result
    ingress         \* the aggregator lock (holder, waiters in the order of their
                    \* asking), the handlers' positions, and the contribution
                    \* the driver has received and not yet inserted

vars == << challenge, contributions, total_score, winner, rewards_rx, rx, pc,
           last_hash_at, response, log, dispatched, landed, confirmed, received,
           written, rx_closed, rewards_closed, attribution, call, ingress >>

aggregator == << challenge, contributions, total_score, winner >>
history == << dispatched, landed, confirmed, received, written >>
others == << rx_closed, rewards_closed, attribution, call >>

\* ------------------------------------------------------ aggregator lock
\* The handlers (contribute.rs:30), the driver (aggregator.rs:103, 115, 133,
\* 138, 145) and the attribution loop (main.rs:62) take the aggregator lock
\* one at a time, in the order in which they asked for it (the tokio locks
\* are fair).

\* Mutant: the lock is granted whoever holds it.
GrantedWhoeverHolds(who) ==
    ingress.waiters # << >> /\ Head(ingress.waiters) = who

\* `who` asked first and the lock is free.
Granted(who) ==
    /\ ingress.holder = NoParty
    /\ ingress.waiters # << >>
    /\ Head(ingress.waiters) = who

\* `who` starts to wait for the lock.
Awaiting(g, who) == [g EXCEPT !.waiters = Append(@, who)]

\* The first waiter takes the lock and keeps it after the step.
Taken(g) == [g EXCEPT !.holder = Head(g.waiters), !.waiters = Tail(@)]

\* The first waiter takes the lock and drops it within the step.
Passed(g) == [g EXCEPT !.waiters = Tail(@)]

\* The holder drops the lock.
Released(g) == [g EXCEPT !.holder = NoParty]

\* ------------------------------------------------------------ contribute
\* `tx.send(..).await` of contribute.rs:54-60 waits while the channel is
\* full: a bounded channel that holds ChannelCapacity contributions.  The
\* unbounded channel of main.rs:29 is never full.
Full(queue) == ingress.bounded /\ Len(queue) >= ChannelCapacity

\* The checks of contribute, in the order of the code: the first that fails
\* decides the response.
SignatureVerifies(payload) == payload.signature

BelowMinDifficulty(payload, ch) ==
    Difficulty(payload.solution) < ch.min_difficulty

\* Mutant: the difficulty is checked before the signature.
StatusDifficultyFirst(payload, ch) ==
    IF BelowMinDifficulty(payload, ch) THEN 400
    ELSE IF ~SignatureVerifies(payload) THEN 401
    ELSE IF ~IsValidDigest(ch.challenge, payload.solution) THEN 400
    ELSE 200

Status(payload, ch) ==
    IF ~SignatureVerifies(payload) THEN 401
    ELSE IF BelowMinDifficulty(payload, ch) THEN 400
    ELSE IF ~IsValidDigest(ch.challenge, payload.solution) THEN 400
    ELSE 200

\* The contribution contribute sends: score = 2u64.pow(difficulty).
NewContribution(payload) ==
    [member |-> payload.authority,
     score |-> U64Pow2(Difficulty(payload.solution)),
     solution |-> payload.solution]

\* What contribute leaves in the channel.
Enqueue(queue, payload, ch) ==
    IF Status(payload, ch) = 200
    THEN Append(queue, NewContribution(payload))
    ELSE queue

\* The aggregator lock is held by the round driver for the whole of
\* submit_and_reset.
SubmitStates == {"check_for_reset", "dispatch", "await_rewards"}

\* The contributions in the channel and those the running handlers may
\* still send.
InFlight ==
    Len(rx) + Cardinality({h \in Handlers : ingress.handlers[h].st # "idle"})

\* contribute.rs:30: the request of member h arrives and its handler asks
\* for the lock.  (On the unbounded channel requests arrive while fewer than
\* MaxQueue contributions are in flight.)
Arrive(h) ==
    /\ ~rx_closed
    /\ ingress.handlers[h].st = "idle"
    /\ ingress.bounded \/ InFlight < MaxQueue
    /\ ingress' = Awaiting([ingress EXCEPT !.handlers[h].st = "queued"],
                           Handler(h))
    /\ response' = NoResponse
    /\ UNCHANGED << aggregator, rewards_rx, rx, pc, last_hash_at, log,
                    history, rx_closed, rewards_closed, attribution, call >>

\* contribute.rs:30-61 once the lock is granted.  A failed check answers 401
\* or 400 and drops the lock.  Otherwise the send completes at once when the
\* channel is not full (or has lost its receiver) and the handler answers
\* 200; on a full channel the handler stays in the send, the lock in its
\* hands.
contribute(payload) ==
    LET h == payload.authority IN
    /\ ingress.handlers[h].st = "queued"
    /\ Granted(Handler(h))
    /\ IF Status(payload, challenge) # 200
       THEN /\ response' = Status(payload, challenge)
            /\ ingress' = Passed([ingress EXCEPT !.handlers[h].st = "idle"])
            /\ UNCHANGED rx
       ELSE IF pc = "exited"
       THEN /\ response' = 200
            /\ ingress' = Passed([ingress EXCEPT !.handlers[h].st = "idle"])
            /\ UNCHANGED rx
       ELSE IF ~Full(rx)
       THEN /\ response' = 200
            /\ rx' = Enqueue(rx, payload, challenge)
            /\ ingress' = Passed([ingress EXCEPT !.handlers[h].st = "idle"])
       ELSE /\ ingress' = Taken([ingress EXCEPT !.handlers[h] =
                                   [st |-> "sending",
                                    contribution |-> NewContribution(payload)]])
            /\ response' = NoResponse
            /\ UNCHANGED rx
    /\ UNCHANGED << aggregator, rewards_rx, pc, last_hash_at, log, history,
                    rx_closed, rewards_closed, attribution, call >>

\* contribute.rs:54-61: the pending send completes when the channel has room
\* (Ok) or has lost its receiver (Err, ignored); the handler answers 200 and
\* drops the lock.
SendCompletes(h) ==
    /\ ingress.holder = Handler(h)
    /\ ingress.handlers[h].st = "sending"
    /\ ~Full(rx) \/ pc = "exited"
    /\ rx' = IF pc = "exited" THEN rx
             ELSE Append(rx, ingress.handlers[h].contribution)
    /\ response' = 200
    /\ ingress' = Released([ingress EXCEPT !.handlers[h] = [st |-> "idle"]])
    /\ UNCHANGED << aggregator, rewards_rx, pc, last_hash_at, log, history,
                    rx_closed, rewards_closed, attribution, call >>

\* ---------------------------------------------------------------- insert
\* Mutant: equality on every field (a derived PartialEq).
ContributionEqAllFields(a, b) == a = b

\* impl PartialEq / Hash for Contribution: the member alone.
ContributionEq(a, b) == a.member = b.member

\* HashSet::insert: true (and the element added) iff no equal element is in.
HashSetInsert(set, c) ==
    IF \E e \in set : ContributionEq(e, c)
    THEN [inserted |-> FALSE, set |-> set]
    ELSE [inserted |-> TRUE, set |-> set \cup {c}]

\* Mutant: `>=` for `>`, so that a tie replaces the winner.
NewWinnerReplacesOnTie(w, contender) ==
    IF w # None
    THEN IF contender.difficulty >= w[1].difficulty THEN Some(contender) ELSE w
    ELSE Some(contender)

\* Mutant: the None arm leaves the winner unset.
NewWinnerKeepsNone(w, contender) ==
    IF w # None
    THEN IF contender.difficulty > w[1].difficulty THEN Some(contender) ELSE w
    ELSE None

\* The `match self.winner` of insert.
NewWinner(w, contender) ==
    IF w # None
    THEN IF contender.difficulty > w[1].difficulty THEN Some(contender) ELSE w
    ELSE Some(contender)

\* Mutant: the winner is matched whether or not the set took the
\* contribution.
insert_winner_unguarded(contribution) ==
    LET r == HashSetInsert(contributions, contribution)
        difficulty == Difficulty(contribution.solution)
        contender == [solution |-> contribution.solution,
                      difficulty |-> difficulty]
    IN /\ winner' = NewWinner(winner, contender)
       /\ IF r.inserted
          THEN /\ contributions' = r.set
               /\ total_score' = U64Add(total_score, contribution.score)
               /\ log' = {}
          ELSE /\ log' = {"already received contribution"}
               /\ UNCHANGED << contributions, total_score >>

insert(contribution) ==
    LET r == HashSetInsert(contributions, contribution) IN
    IF r.inserted
    THEN LET difficulty == Difficulty(contribution.solution)
             contender == [solution |-> contribution.solution,
                           difficulty |-> difficulty]
         IN /\ contributions' = r.set
            /\ total_score' = U64Add(total_score, contribution.score)
            /\ winner' = NewWinner(winner, contender)
            /\ log' = {}
    ELSE /\ log' = {"already received contribution"}
         /\ UNCHANGED << contributions, total_score, winner >>

\* ------------------------------------------------- process_contributions
\* The driver waits for the lock at the positions named *_lock; it holds it
\* through SubmitStates; everywhere else it neither holds nor awaits it.
LoopHead == "cutoff_lock"

\* aggregator.rs:101-108: cutoff_time is read under the read lock and the
\* guard dropped; remaining_time is cutoff_time less the time elapsed since
\* the timer was started, before the wait for the lock.  The inner loop runs
\* while remaining_time > 0, and with no time remaining the driver goes on
\* to read total_score.
ReadCutoff ==
    /\ pc = "cutoff_lock"
    /\ Granted(Driver)
    /\ \E elapsed \in {0, challenge.cutoff_time} :
        IF challenge.cutoff_time - elapsed > 0
        THEN /\ pc' = "collecting"
             /\ ingress' = Passed(ingress)
        ELSE /\ pc' = "total_lock"
             /\ ingress' = Awaiting(Passed(ingress), Driver)
    /\ log' = {}
    /\ response' = NoResponse
    /\ UNCHANGED << aggregator, rewards_rx, rx, last_hash_at, history,
                    rx_closed, rewards_closed, attribution, call >>

\* aggregator.rs:110-115: Ok(Some(contribution)) of the timed race, which
\* needs no lock; the driver then asks for the write lock.
Recv ==
    /\ pc = "collecting"
    /\ rx # << >>
    /\ rx' = Tail(rx)
    /\ ingress' = Awaiting([ingress EXCEPT !.held = Some(Head(rx))], Driver)
    /\ pc' = "insert_lock"
    /\ log' = {}
    /\ response' = NoResponse
    /\ UNCHANGED << aggregator, rewards_rx, last_hash_at, history,
                    rx_closed, rewards_closed, attribution, call >>

\* aggregator.rs:115-119: insert under the write lock; remaining_time is
\* recomputed and the inner loop goes on (more) or ends, and then the driver
\* asks for the read lock.
Insert ==
    /\ pc = "insert_lock"
    /\ Granted(Driver)
    /\ insert(ingress.held[1])
    /\ \E more \in BOOLEAN :
        IF more
        THEN /\ pc' = "collecting"
             /\ ingress' = Passed([ingress EXCEPT !.held = None])
        ELSE /\ pc' = "total_lock"
             /\ ingress' = Awaiting(Passed([ingress EXCEPT !.held = None]),
                                    Driver)
    /\ response' = NoResponse
    /\ UNCHANGED << challenge, rewards_rx, rx, last_hash_at, history,
                    rx_closed, rewards_closed, attribution, call >>

\* aggregator.rs:124-132: Err(_) of the timed race: the cutoff time has been
\* reached, whoever holds the lock; the driver asks for the read lock.  The
\* race polls recv first, so the timeout wins only when the channel is empty
\* and open.
Timeout ==
    /\ pc = "collecting"
    /\ rx = << >>
    /\ ~rx_closed
    /\ pc' = "total_lock"
    /\ ingress' = Awaiting(ingress, Driver)
    /\ log' = {}
    /\ response' = NoResponse
    /\ UNCHANGED << aggregator, rewards_rx, rx, last_hash_at, history,
                    rx_closed, rewards_closed, attribution, call >>

\* aggregator.rs:131-143: total_score is read under the read lock and the
\* guard dropped; `if total_score > 0` asks for the write lock, the else
\* branch waits for the first contribution.
ReadTotal ==
    /\ pc = "total_lock"
    /\ Granted(Driver)
    /\ IF ~U64IsZero(total_score)
       THEN /\ pc' = "submit_lock"
            /\ ingress' = Awaiting(Passed(ingress), Driver)
       ELSE /\ pc' = "wait_first"
            /\ ingress' = Passed(ingress)
    /\ log' = {}
    /\ response' = NoResponse
    /\ UNCHANGED << aggregator, rewards_rx, rx, last_hash_at, history,
                    rx_closed, rewards_closed, attribution, call >>

\* aggregator.rs:143-145: the else branch receives the first contribution,
\* without the lock, and asks for the write lock.
WaitFirst ==
    /\ pc = "wait_first"
    /\ rx # << >>
    /\ rx' = Tail(rx)
    /\ ingress' = Awaiting([ingress EXCEPT !.held = Some(Head(rx))], Driver)
    /\ pc' = "first_lock"
    /\ log' = {}
    /\ response' = NoResponse
    /\ UNCHANGED << aggregator, rewards_rx, last_hash_at, history,
                    rx_closed, rewards_closed, attribution, call >>

\* aggregator.rs:138-139 and 145-146: the write lock is granted; the first
\* contribution, if the driver has one in hand, is inserted; submit_and_reset
\* begins and the lock is kept.
EnterSubmit ==
    /\ pc \in {"submit_lock", "first_lock"}
    /\ Granted(Driver)
    /\ IF pc = "first_lock"
       THEN /\ insert(ingress.held[1])
            /\ ingress' = Taken([ingress EXCEPT !.held = None])
       ELSE /\ ingress' = Taken(ingress)
            /\ log' = {}
            /\ UNCHANGED << contributions, total_score, winner >>
    /\ pc' = "check_for_reset"
    /\ response' = NoResponse
    /\ UNCHANGED << challenge, rewards_rx, rx, last_hash_at, history,
                    rx_closed, rewards_closed, attribution, call >>

\* aggregator.rs:139-142 and 146-150: when submit_and_reset returns (pc' is
\* the loop head) the write guard is dropped and the outer loop asks for the
\* read lock; while it goes on the driver keeps the lock.
GuardAfter ==
    ingress' = IF pc' = LoopHead THEN Awaiting(Released(ingress), Driver)
               ELSE ingress

\* ------------------------------------------------------- chain (external)
\* A chain read of pool.last_hash_at: the on-chain value, or the value the
\* aggregator already holds when the RPC node has not caught up.
Observed(read, ch) == IF read = "fresh" THEN last_hash_at ELSE ch.lash_hash_at

\* The on-chain program accepts a submitted solution iff its digest is valid
\* for the current proof.challenge.
ChainAccepts(solution) == solution.c = ChallengeAt(last_hash_at)

SubmitOutcomes == {"confirmed", "landed_unconfirmed", "failed"}
Lands(outcome) == outcome \in {"confirmed", "landed_unconfirmed"}

\* ------------------------------------------------------- update_challenge
\* Mutant: the retries are compared before they are counted, which allows
\* one attempt more.
RECURSIVE update_challenge_loop_one_more(_, _, _, _, _)
update_challenge_loop_one_more(ch, retries, stale, final, cutoff_time) ==
    IF stale = 0 /\ final = "rpc_err"
    THEN [new |-> None, attempts |-> retries + 1]
    ELSE IF Observed(IF stale > 0 THEN "stale" ELSE "fresh", ch) # ch.lash_hash_at
    THEN [new |-> Some([challenge |-> ChallengeAt(last_hash_at),
                        lash_hash_at |-> last_hash_at,
                        min_difficulty |-> MinDifficulty,
                        cutoff_time |-> cutoff_time]),
          attempts |-> retries + 1]
    ELSE IF retries = max_retries
    THEN [new |-> None, attempts |-> retries + 1]
    ELSE update_challenge_loop_one_more(ch, retries + 1,
                                        IF stale > 0 THEN stale - 1 ELSE 0,
                                        final, cutoff_time)

\* The retry loop.  The first `stale` reads do not show an advance; the read
\* after them is `final`: a fresh read, or an RPC error.  `new` is
\* Some(new challenge) for Ok(()) and None for Err; `attempts` counts the
\* passes of the loop (one fetch of proof and pool each).
RECURSIVE update_challenge_loop(_, _, _, _, _)
update_challenge_loop(ch, retries, stale, final, cutoff_time) ==
    IF stale = 0 /\ final = "rpc_err"
    THEN [new |-> None, attempts |-> retries + 1]
    ELSE IF Observed(IF stale > 0 THEN "stale" ELSE "fresh", ch) # ch.lash_hash_at
    THEN [new |-> Some([challenge |-> ChallengeAt(last_hash_at),
                        lash_hash_at |-> last_hash_at,
                        min_difficulty |-> MinDifficulty,
                        cutoff_time |-> cutoff_time]),
          attempts |-> retries + 1]
    ELSE IF retries + 1 = max_retries
    THEN [new |-> None, attempts |-> retries + 1]
    ELSE update_challenge_loop(ch, retries + 1,
                               IF stale > 0 THEN stale - 1 ELSE 0,
                               final, cutoff_time)

update_challenge(ch, stale, final, cutoff_time) ==
    update_challenge_loop(ch, 0, stale, final, cutoff_time).new

\* ------------------------------------------------------------------ reset
\* The inputs of one call of reset: the reads of update_challenge, the
\* cutoff of the new proof, and whether the get_pool of reset succeeds.
ResetInputs ==
    [stale : {0, 1, max_retries - 1, max_retries}, final : {"fresh", "rpc_err"},
     cutoff_time : CutoffTimes, pool_ok : BOOLEAN]

\* The aggregator after reset, and whether reset returned Ok.
reset(in) ==
    LET updated == update_challenge(challenge, in.stale, in.final, in.cutoff_time) IN
    IF updated = None
    THEN [ok |-> FALSE, challenge |-> challenge, contributions |-> contributions,
          total_score |-> total_score, winner |-> winner]
    ELSE IF ~in.pool_ok
    THEN [ok |-> FALSE, challenge |-> updated[1], contributions |-> contributions,
          total_score |-> total_score, winner |-> winner]
    ELSE [ok |-> TRUE, challenge |-> updated[1], contributions |-> {},
          total_score |-> U64Zero, winner |-> None]

ApplyReset(r) ==
    /\ challenge' = r.challenge
    /\ contributions' = r.contributions
    /\ total_score' = r.total_score
    /\ winner' = r.winner

\* -------------------------------------------------------- submit_and_reset
\* The history variables describe the stored challenge: they start afresh
\* when another challenge is installed.
HistoryAfter(ch, d, l, c, r, w) ==
    IF ch.challenge # challenge.challenge
    THEN /\ dispatched' = 0
         /\ landed' = 0
         /\ confirmed' = FALSE
         /\ received' = FALSE
         /\ written' = 0
    ELSE /\ dispatched' = d
         /\ landed' = l
         /\ confirmed' = c
         /\ received' = r
         /\ written' = w

\* check_for_reset
needs_reset(read) == Observed(read, challenge) # challenge.lash_hash_at

\* Lines 221-226: check_for_reset, the irregular reset, and self.winner()?.
\* Every error returns to process_contributions, which logs it and loops.
CheckForReset ==
    /\ pc = "check_for_reset"
    /\ \E read \in {"fresh", "stale", "rpc_err"} :
        IF read = "rpc_err"
        THEN /\ pc' = LoopHead
             /\ log' = {"error"}
             /\ UNCHANGED << aggregator, history >>
        ELSE IF needs_reset(read)
        THEN \E in \in ResetInputs :
             LET r == reset(in) IN
             /\ ApplyReset(r)
             /\ HistoryAfter(r.challenge, dispatched, landed, confirmed,
                             received, written)
             /\ pc' = IF r.ok /\ r.winner # None
                      THEN "dispatch" ELSE LoopHead
             /\ log' = {"irregular reset"} \cup
                       (IF ~r.ok THEN {"error"}
                        ELSE IF r.winner = None
                        THEN {"no solutions were submitted"} ELSE {})
        ELSE /\ pc' = IF winner # None
                      THEN "dispatch" ELSE LoopHead
             /\ log' = IF winner # None
                       THEN {} ELSE {"no solutions were submitted"}
             /\ UNCHANGED << aggregator, history >>
    /\ GuardAfter
    /\ response' = NoResponse
    /\ UNCHANGED << rewards_rx, rx, last_hash_at, others >>

\* Mutant: the error of the submission is not propagated.
SubmitOkIgnoringError(outcome) == TRUE

\* `.await?` on submit_and_confirm_instructions
SubmitOk(outcome) == outcome = "confirmed"

\* Lines 229-253: attestation, find_bus, and the dispatch of [auth, submit].
\* A bundle that lands advances the chain and makes the webhook deliver one
\* rewards event.
Dispatch ==
    /\ pc = "dispatch"
    /\ \E bus_ok \in BOOLEAN, outcome \in SubmitOutcomes :
        IF ~bus_ok
        THEN /\ pc' = LoopHead
             /\ log' = {"error"}
             /\ UNCHANGED << rewards_rx, last_hash_at, dispatched, landed, confirmed >>
        ELSE /\ dispatched < MaxDispatch
             /\ Lands(outcome) =>
                    ChainAccepts(winner[1].solution) /\ last_hash_at < MaxRounds
             /\ dispatched' = dispatched + 1
             /\ landed' = IF Lands(outcome) THEN landed + 1 ELSE landed
             /\ last_hash_at' = IF Lands(outcome)
                                THEN last_hash_at + 1 ELSE last_hash_at
             /\ rewards_rx' = IF Lands(outcome) /\ ~rewards_closed
                              THEN Append(rewards_rx, [round |-> last_hash_at])
                              ELSE rewards_rx
             /\ confirmed' = (confirmed \/ outcome = "confirmed")
             /\ pc' = IF SubmitOk(outcome)
                      THEN "await_rewards" ELSE LoopHead
             /\ log' = IF SubmitOk(outcome) THEN {} ELSE {"error"}
    /\ GuardAfter
    /\ response' = NoResponse
    /\ UNCHANGED << aggregator, rx, received, written, others >>

\* Lines 254-303: the rewards event is received, the attribution is computed
\* (Err when the staker balances of a boost mint are missing), a database
\* client is obtained (Err when that fails), the writer task is spawned with
\* the attribution, and the round is reset.
AwaitRewards ==
    /\ pc = "await_rewards"
    /\ rewards_rx # << >>
    /\ rewards_rx' = Tail(rewards_rx)
    /\ LET got == received \/ Head(rewards_rx).round = challenge.challenge IN
       \E post \in {"ok", "missing_stakers", "db_err"} :
        IF post # "ok"
        THEN /\ pc' = LoopHead
             /\ log' = {post}
             /\ received' = got
             /\ UNCHANGED << aggregator, dispatched, landed, confirmed, written >>
        ELSE \E in \in ResetInputs :
             LET r == reset(in) IN
             /\ ApplyReset(r)
             /\ HistoryAfter(r.challenge, dispatched, landed, confirmed,
                             got, written + 1)
             /\ pc' = LoopHead
             /\ log' = IF r.ok THEN {} ELSE {"error"}
    /\ GuardAfter
    /\ response' = NoResponse
    /\ UNCHANGED << rx, last_hash_at, others >>

\* ------------------------------------------------------------------ system
\* Aggregator::new, with the cutoff the first proof gives; the driver is
\* spawned and asks for the lock; g is the lock and the channel.
Construct(g) ==
    /\ \E cutoff_time \in CutoffTimes :
        /\ challenge = [challenge |-> ChallengeAt(0), lash_hash_at |-> 0,
                        min_difficulty |-> MinDifficulty,
                        cutoff_time |-> cutoff_time]
    /\ pc = LoopHead
    /\ contributions = {}
    /\ total_score = U64Zero
    /\ winner = None
    /\ rewards_rx = << >>
    /\ rx = << >>
    /\ last_hash_at = 0
    /\ response = NoResponse
    /\ log = {}
    /\ dispatched = 0
    /\ landed = 0
    /\ confirmed = FALSE
    /\ received = FALSE
    /\ written = 0
    /\ rx_closed = FALSE
    /\ rewards_closed = FALSE
    /\ attribution = "idle"
    /\ ingress = Awaiting(g, Driver)
    /\ call = [fn |-> "none"]

\* main.rs:26-52: the lock, the unbounded channel and the driver.
Init == Construct(IngressIdle)

Contribute == \E payload \in Payloads(challenge) : contribute(payload)

\* process_contributions and the submit_and_reset it calls.
DriverNext ==
    \/ ReadCutoff
    \/ Recv
    \/ Insert
    \/ Timeout
    \/ ReadTotal
    \/ WaitFirst
    \/ EnterSubmit
    \/ CheckForReset
    \/ Dispatch
    \/ AwaitRewards

Next ==
    \/ \E h \in Handlers : Arrive(h)
    \/ Contribute
    \/ DriverNext

Spec == Init /\ [][Next]_vars

\* ------------------------------------------------------- channel closures
\* The requests of the behaviours with channel closures and with the
\* attribution task: solutions of the minimum difficulty for the stored
\* challenge, with a signature that verifies or not.
PlainPayloads(ch) ==
    { p \in Payloads(ch) :
        p.solution.c = ch.challenge /\ p.solution.d = MinDifficulty }

ContributePlain == \E payload \in PlainPayloads(challenge) : contribute(payload)

HandlersNext ==
    \/ \E h \in Handlers : Arrive(h)
    \/ ContributePlain

\* The last sender of the contribution channel is dropped: the server has
\* stopped and no handler is running.
CloseIngress ==
    /\ ~rx_closed
    /\ \A h \in Handlers : ingress.handlers[h].st = "idle"
    /\ rx_closed' = TRUE
    /\ response' = NoResponse
    /\ UNCHANGED << aggregator, rewards_rx, rx, pc, last_hash_at, log,
                    history, rewards_closed, attribution, call, ingress >>

\* Ok(None) of the timed race: process_contributions returns the error.
RecvNone ==
    /\ pc = "collecting"
    /\ rx = << >>
    /\ rx_closed
    /\ pc' = "exited"
    /\ log' = {"contribution channel closed"}
    /\ response' = NoResponse
    /\ UNCHANGED << aggregator, rewards_rx, rx, last_hash_at, history,
                    others, ingress >>

\* The else branch when recv returns None: `if let Some(..)` does not match
\* and the outer loop goes round.
WaitFirstNone ==
    /\ pc = "wait_first"
    /\ rx = << >>
    /\ rx_closed
    /\ pc' = LoopHead
    /\ ingress' = Awaiting(ingress, Driver)
    /\ log' = {}
    /\ response' = NoResponse
    /\ UNCHANGED << aggregator, rewards_rx, rx, last_hash_at, history,
                    others >>

\* The last sender of the rewards channel is dropped.
CloseRewards ==
    /\ ~rewards_closed
    /\ rewards_closed' = TRUE
    /\ response' = NoResponse
    /\ UNCHANGED << aggregator, rewards_rx, rx, pc, last_hash_at, log,
                    history, rx_closed, attribution, call, ingress >>

\* Lines 255-259 when recv returns None: submit_and_reset returns
\* "rewards channel closed", which process_contributions logs.
AwaitRewardsClosed ==
    /\ pc = "await_rewards"
    /\ rewards_rx = << >>
    /\ rewards_closed
    /\ pc' = LoopHead
    /\ GuardAfter
    /\ log' = {"rewards channel closed"}
    /\ response' = NoResponse
    /\ UNCHANGED << aggregator, rewards_rx, rx, last_hash_at, history,
                    others >>

NextChannels ==
    \/ HandlersNext
    \/ DriverNext
    \/ CloseIngress
    \/ RecvNone
    \/ WaitFirstNone
    \/ CloseRewards
    \/ AwaitRewardsClosed

SpecChannels == Init /\ [][NextChannels]_vars

\* --------------------------------------------- periodic attribution task
\* main.rs:60-62: the attribution loop asks for the write lock.
AttributeAsks ==
    /\ attribution = "idle"
    /\ attribution' = "queued"
    /\ ingress' = Awaiting(ingress, AttributionTask)
    /\ response' = NoResponse
    /\ UNCHANGED << aggregator, rewards_rx, rx, pc, last_hash_at, log,
                    history, rx_closed, rewards_closed, call >>

\* aggregator.write().await of the attribution loop is granted and
\* attribute_members begins.
AttributeStart ==
    /\ attribution = "queued"
    /\ Granted(AttributionTask)
    /\ attribution' = "attributing"
    /\ ingress' = Taken(ingress)
    /\ response' = NoResponse
    /\ UNCHANGED << aggregator, rewards_rx, rx, pc, last_hash_at, log,
                    history, rx_closed, rewards_closed, call >>

\* attribute_members returns: Ok drops the lock and sleeps, Err panics the
\* task (the unwinding drops the lock).
AttributeEnd ==
    /\ attribution = "attributing"
    /\ \E ok \in BOOLEAN : attribution' = IF ok THEN "idle" ELSE "panicked"
    /\ ingress' = Released(ingress)
    /\ response' = NoResponse
    /\ UNCHANGED << aggregator, rewards_rx, rx, pc, last_hash_at, log,
                    history, rx_closed, rewards_closed, call >>

NextAttribution ==
    \/ HandlersNext
    \/ DriverNext
    \/ AttributeAsks
    \/ AttributeStart
    \/ AttributeEnd

SpecAttribution == Init /\ [][NextAttribution]_vars

\* ------------------------------------------- ingress on a bounded channel
\* contribute as it is written takes a bounded Sender and holds the lock
\* across its send (contribute.rs:25-26, 30, 54-60).  Here it runs beside
\* the driver and the attribution task on one lock and on a bounded queue
\* that the driver drains, the data flow the design describes.
InitIngress == Construct(IngressIdleBounded)

NextIngress ==
    \/ HandlersNext
    \/ \E h \in Handlers : SendCompletes(h)
    \/ DriverNext
    \/ AttributeAsks
    \/ AttributeStart
    \/ AttributeEnd

SpecIngress == InitIngress /\ [][NextIngress]_vars

\* -------------------------------------------------------- wide arithmetic
\* u64 and u128 values are limb sequences of NumLimbs and 2 * NumLimbs limbs.
U128Limbs == 2 * NumLimbs

\* `as u128` and `as u64`: zero extension and truncation.
Pad(a, n) == AsSeq([i \in 1..n |-> IF i <= Len(a) THEN a[i] ELSE 0])
Trunc(a, n) == AsSeq([i \in 1..n |-> a[i]])

\* A literal or a commission (below 2^31) as a number of n limbs.
FromInt(k, n) ==
    AsSeq([i \in 1..n |-> IF i = 1 THEN k % LimbBase
                          ELSE IF i = 2 THEN k \div LimbBase ELSE 0])

RECURSIVE LessFrom(_, _, _)
LessFrom(a, b, i) ==
    IF i = 0 THEN FALSE
    ELSE IF a[i] # b[i] THEN a[i] < b[i]
    ELSE LessFrom(a, b, i - 1)

\* a < b for numbers of the same length.
Less(a, b) == LessFrom(a, b, Len(a))

RECURSIVE Borrow(_, _, _)
Borrow(a, b, i) ==
    IF i = 0 THEN 0
    ELSE IF a[i] - b[i] - Borrow(a, b, i - 1) < 0 THEN 1 ELSE 0

\* a - b modulo LimbBase^Len(a).
SubLimbs(a, b) ==
    AsSeq([i \in 1..Len(a) |->
            (a[i] - b[i] - Borrow(a, b, i - 1) + LimbBase) % LimbBase])

RECURSIVE MulCarry(_, _, _)
MulCarry(a, k, i) ==
    IF i = 0 THEN 0 ELSE (a[i] * k + MulCarry(a, k, i - 1)) \div LimbBase

\* a * k modulo LimbBase^Len(a), for a factor k of at most 256.
MulSmall(a, k) ==
    AsSeq([i \in 1..Len(a) |-> (a[i] * k + MulCarry(a, k, i - 1)) % LimbBase])

\* a * LimbBase^j modulo LimbBase^Len(a).
ShiftLimbs(a, j) ==
    AsSeq([i \in 1..Len(a) |-> IF i > j THEN a[i - j] ELSE 0])

\* a * d for one limb d, by its two bytes.
MulLimb(a, d) ==
    AddLimbs(MulSmall(MulSmall(a, d \div 256), 256), MulSmall(a, d % 256))

RECURSIVE MulFrom(_, _, _)
MulFrom(a, b, j) ==
    IF j > Len(b) THEN ZeroLimbs(Len(a))
    ELSE AddLimbs(ShiftLimbs(MulLimb(a, b[j]), j - 1), MulFrom(a, b, j + 1))

\* The exact product, of Len(a) + Len(b) limbs.
MulLimbs(a, b) == MulFrom(Pad(a, Len(a) + Len(b)), b, 1)

\* Long division brings down one limb of the dividend at a time, and that
\* limb one bit at a time from the top: r is the remainder so far, qd the
\* bits of the quotient limb so far.
RECURSIVE DivBits(_, _, _, _, _)
DivBits(r, b, limb, k, qd) ==
    IF k < 0 THEN [r |-> r, qd |-> qd]
    ELSE LET bit == (limb \div (2 ^ k)) % 2
             r2 == AddLimbs(AddLimbs(r, r), FromInt(bit, Len(r)))
         IN IF Less(r2, b)
            THEN DivBits(r2, b, limb, k - 1, 2 * qd)
            ELSE DivBits(SubLimbs(r2, b), b, limb, k - 1, 2 * qd + 1)

\* The limbs of the dividend from j down: r is the remainder left by the
\* limbs above j, q the quotient limbs above j (one per limb brought down,
\* which the test on Len(q2) states before the next limb is taken).
RECURSIVE DivFrom(_, _, _, _, _)
DivFrom(a, b, j, r, q) ==
    IF j = 0 THEN q
    ELSE LET step == DivBits(r, b, a[j], LimbBits - 1, 0)
             q2 == << step.qd >> \o q
         IN IF Len(q2) = Len(a) - j + 1
            THEN DivFrom(a, b, j - 1, step.r, q2)
            ELSE q2

\* a / b truncated, for b # 0; the quotient has the length of a.
DivLimbs(a, b) ==
    DivFrom(a, Pad(b, Len(b) + 1), Len(a), ZeroLimbs(Len(b) + 1), << >>)

\* u64 `*` as the release build computes it (modulo 2^64), and `/`.
U64Mul(a, b) == Trunc(MulLimbs(a, b), NumLimbs)
U64Div(a, b) == DivLimbs(a, b)

\* u128 `+`, `*` and `/`.
U128Zero == ZeroLimbs(U128Limbs)
U128Add(a, b) == AddLimbs(a, b)
U128Mul(a, b) == Trunc(MulLimbs(a, b), U128Limbs)
U128Div(a, b) == DivLimbs(a, b)

U128Max == AsSeq([i \in 1..U128Limbs |-> LimbBase - 1])

\* u128::saturating_mul
SaturatingMul(a, b) ==
    LET p == MulLimbs(a, b)
    IN IF \A i \in (U128Limbs + 1)..Len(p) : p[i] = 0
       THEN Trunc(p, U128Limbs) ELSE U128Max

\* u128::checked_div(..).unwrap_or(0)
CheckedDivOrZero(a, b) == IF U64IsZero(b) THEN U128Zero ELSE U128Div(a, b)

\* --------------------------------------------------------------- find_bus
\* A fetched bus account: None when the account is missing or does not parse
\* as a Bus, else Some(bus.rewards).  The bus at position i has bus.id = i.
BusAccounts == {None} \cup { Some(b) : b \in 0..MaxBalance }

\* Mutant: `>=` for `gt`, so that a later bus of equal balance is taken.
RECURSIVE find_bus_loop_ge(_, _, _, _)
find_bus_loop_ge(accounts, i, top_bus_balance, top_bus) ==
    IF i > Len(accounts) THEN top_bus
    ELSE IF accounts[i] # None /\ accounts[i][1] >= top_bus_balance
    THEN find_bus_loop_ge(accounts, i + 1, accounts[i][1], i)
    ELSE find_bus_loop_ge(accounts, i + 1, top_bus_balance, top_bus)

\* The `for account in accounts.into_iter().flatten()` loop.
RECURSIVE find_bus_loop(_, _, _, _)
find_bus_loop(accounts, i, top_bus_balance, top_bus) ==
    IF i > Len(accounts) THEN top_bus
    ELSE IF accounts[i] # None /\ accounts[i][1] > top_bus_balance
    THEN find_bus_loop(accounts, i + 1, accounts[i][1], i)
    ELSE find_bus_loop(accounts, i + 1, top_bus_balance, top_bus)

\* find_bus with the fetched accounts and the random bus_index.
find_bus(accounts, bus_index) == find_bus_loop(accounts, 1, 0, bus_index)

\* ------------------------------------------------- calls of pure functions
\* The challenge stored when update_challenge is called.
StoredChallenge ==
    [challenge |-> ChallengeAt(0), lash_hash_at |-> 0,
     min_difficulty |-> MinDifficulty, cutoff_time |-> 0]

UpdateChallengeCalls ==
    { [fn |-> "update_challenge", args |-> a] :
        a \in [stale : 0..(max_retries + 1), final : {"fresh", "rpc_err"},
               cutoff_time : CutoffTimes] }

FindBusCalls ==
    { [fn |-> "find_bus", args |-> a] :
        a \in [accounts : [1..MaxBuses -> BusAccounts], bus_index : 1..MaxBuses] }

Calls == UpdateChallengeCalls \cup FindBusCalls

\* The aggregator as constructed, the chain at the stored round or one
\* ahead of it, and one call with its arguments.
InitCalls ==
    /\ challenge = StoredChallenge
    /\ contributions = {}
    /\ total_score = U64Zero
    /\ winner = None
    /\ rewards_rx = << >>
    /\ rx = << >>
    /\ pc = "call"
    /\ last_hash_at \in {0, 1}
    /\ response = NoResponse
    /\ log = {}
    /\ dispatched = 0
    /\ landed = 0
    /\ confirmed = FALSE
    /\ received = FALSE
    /\ written = 0
    /\ rx_closed = FALSE
    /\ rewards_closed = FALSE
    /\ attribution = "idle"
    /\ ingress = IngressIdle
    /\ call \in Calls

Returns(result) ==
    /\ call' = [fn |-> call.fn, args |-> call.args, result |-> result]
    /\ pc' = "returned"

CallUpdateChallenge ==
    /\ pc = "call"
    /\ call.fn = "update_challenge"
    /\ LET r == update_challenge_loop(challenge, 0, call.args.stale,
                                      call.args.final, call.args.cutoff_time)
       IN /\ challenge' = IF r.new = None THEN challenge ELSE r.new[1]
          /\ Returns([ok |-> r.new # None, attempts |-> r.attempts])
    /\ UNCHANGED << contributions, total_score, winner, rewards_rx, rx,
                    last_hash_at, response, log, history, rx_closed,
                    rewards_closed, attribution, ingress >>

CallFindBus ==
    /\ pc = "call"
    /\ call.fn = "find_bus"
    /\ Returns(find_bus(call.args.accounts, call.args.bus_index))
    /\ UNCHANGED << aggregator, rewards_rx, rx, last_hash_at, response, log,
                    history, rx_closed, rewards_closed, attribution, ingress >>

NextCalls ==
    \/ CallUpdateChallenge
    \/ CallFindBus

SpecCalls == InitCalls /\ [][NextCalls]_vars

\* ------------------------------------------------- rewards distributions
\* A rewards event is [base, boost_1, boost_2, boost_3]; a boost is None or
\* Some([reward, mint]).  self.stake maps a boost mint to the balances of
\* its stakers.  Commissions are percentages.
Percent == 100

\* The miners' share of one boost, as a u128.
split_stake_rewards_for_miners(boost_event, operator_commission, staker_commission) ==
    IF boost_event = None THEN U128Zero
    ELSE LET miner_commission_for_stake ==
                 FromInt(Percent - operator_commission - staker_commission,
                         U128Limbs)
             stake_rewards == Pad(boost_event[1].reward, U128Limbs)
         IN U128Div(U128Mul(stake_rewards, miner_commission_for_stake),
                    FromInt(Percent, U128Limbs))

\* The keys of the miner vector: member_pda(c.member, pool) for each
\* contribution of the set.
MinerKeys(conts) == { c.member : c \in conts }

\* The attribution of each contributing member.
rewards_distribution(conts, total, rewards, operator_commission, staker_commission) ==
    LET denominator == Pad(total, U128Limbs)
        miner_commission == FromInt(Percent - operator_commission, NumLimbs)
        miner_rewards ==
            Pad(U64Div(U64Mul(rewards.base, miner_commission),
                       FromInt(Percent, NumLimbs)), U128Limbs)
        from_stake(b) ==
            split_stake_rewards_for_miners(b, operator_commission,
                                           staker_commission)
        total_rewards ==
            U128Add(U128Add(U128Add(miner_rewards, from_stake(rewards.boost_1)),
                            from_stake(rewards.boost_2)),
                    from_stake(rewards.boost_3))
    IN [m \in MinerKeys(conts) |->
          LET c == CHOOSE x \in conts : x.member = m
              score == SaturatingMul(Pad(c.score, U128Limbs), total_rewards)
          IN Trunc(CheckedDivOrZero(score, denominator), NumLimbs)]

\* Iterator::sum of the u64 balances (modulo 2^64 in the release build).
RECURSIVE SumBalances(_, _)
SumBalances(stakers, S) ==
    IF S = {} THEN U64Zero
    ELSE LET a == CHOOSE x \in S : TRUE
         IN U64Add(stakers[a], SumBalances(stakers, S \ {a}))

\* The attribution of each staker of one boost; ok is FALSE for
\* Err("missing staker balances").
rewards_distribution_boost(stake, boost_event, staker_commission) ==
    IF boost_event = None THEN [ok |-> TRUE, shares |-> << >>]
    ELSE IF boost_event[1].mint \notin DOMAIN stake
    THEN [ok |-> FALSE, shares |-> << >>]
    ELSE LET total_reward == Pad(boost_event[1].reward, U128Limbs)
             staker_rewards ==
                 U128Div(U128Mul(total_reward,
                                 FromInt(staker_commission, U128Limbs)),
                         FromInt(Percent, U128Limbs))
             stakers == stake[boost_event[1].mint]
             denominator ==
                 Pad(SumBalances(stakers, DOMAIN stakers), U128Limbs)
         IN [ok |-> TRUE,
             shares |->
               [a \in DOMAIN stakers |->
                 LET score == SaturatingMul(Pad(stakers[a], U128Limbs),
                                            staker_rewards)
                 IN Trunc(CheckedDivOrZero(score, denominator), NumLimbs)]]

\* The attribution of the operator.
rewards_distribution_operator(rewards, operator_commission) ==
    LET share(x) == U64Div(U64Mul(x, FromInt(operator_commission, NumLimbs)),
                           FromInt(Percent, NumLimbs))
        of_boost(b) == IF b = None THEN U64Zero ELSE share(b[1].reward)
        mine_rewards == share(rewards.base)
        stake_rewards ==
            U64Add(U64Add(U64Add(U64Zero, of_boost(rewards.boost_1)),
                          of_boost(rewards.boost_2)),
                   of_boost(rewards.boost_3))
    IN U64Add(mine_rewards, stake_rewards)

\* Lines 263-284 of submit_and_reset: the five distributions of one event.
Attributions(conts, total, stake, rewards, operator_commission, staker_commission) ==
    LET b1 == rewards_distribution_boost(stake, rewards.boost_1, staker_commission)
        b2 == rewards_distribution_boost(stake, rewards.boost_2, staker_commission)
        b3 == rewards_distribution_boost(stake, rewards.boost_3, staker_commission)
    IN [ok |-> b1.ok /\ b2.ok /\ b3.ok,
        miners |-> rewards_distribution(conts, total, rewards,
                                        operator_commission, staker_commission),
        boost_1 |-> b1.shares,
        boost_2 |-> b2.shares,
        boost_3 |-> b3.shares,
        operator |-> rewards_distribution_operator(rewards, operator_commission)]

\* The aggregator after insert(contribution), as a value.
Inserted(agg, contribution) ==
    LET r == HashSetInsert(agg.contributions, contribution) IN
    IF r.inserted
    THEN [contributions |-> r.set,
          total_score |-> U64Add(agg.total_score, contribution.score),
          winner |-> NewWinner(agg.winner,
                               [solution |-> contribution.solution,
                                difficulty |-> Difficulty(contribution.solution)])]
    ELSE agg

RECURSIVE InsertedAll(_, _)
InsertedAll(agg, seq) ==
    IF seq = << >> THEN agg
    ELSE InsertedAll(Inserted(agg, Head(seq)), Tail(seq))

EmptyAggregator == [contributions |-> {}, total_score |-> U64Zero, winner |-> None]

\* The contribution contribute sends for member m and a valid solution of
\* difficulty d.
ValidContribution(m, d) ==
    NewContribution([authority |-> m,
                     solution |-> [c |-> StoredChallenge.challenge, d |-> d, n |-> m],
                     signature |-> TRUE])

ScoredDifficulties == {MinDifficulty, U64Bits - 1}

\* The aggregators in which a round is submitted: one or two members.
Aggregators ==
    { InsertedAll(EmptyAggregator, << ValidContribution(1, d) >>) :
        d \in ScoredDifficulties }
    \cup
    { InsertedAll(EmptyAggregator,
                  << ValidContribution(1, d[1]), ValidContribution(2, d[2]) >>) :
        d \in ScoredDifficulties \X ScoredDifficulties }

MaxBase == 999
Bases == {FromInt(MaxBase, NumLimbs), U64Pow2(U64Bits - 1)}

BoostEvents(reward, mint) ==
    {None, Some([reward |-> FromInt(reward, NumLimbs), mint |-> mint])}

RewardsEvents ==
    { [base |-> b, boost_1 |-> b1, boost_2 |-> b2, boost_3 |-> b3] :
        b \in Bases, b1 \in BoostEvents(MaxBase + 2, 1),
        b2 \in BoostEvents(MaxBase \div 13, 2), b3 \in BoostEvents(10, 3) }

\* (operator_commission, staker_commission), summing to at most Percent.
Commissions == {<<0, 0>>, <<5, 10>>, <<33, 67>>, <<Percent, 0>>}

\* Staker snapshots: balances for the mints 1 and 2, none for mint 3.
Stakes ==
    { (1 :> (1 :> FromInt(3, NumLimbs) @@ 2 :> FromInt(5, NumLimbs))
        @@ 2 :> (1 :> FromInt(7, NumLimbs))),
      (1 :> (1 :> U64Zero) @@ 2 :> << >>) }

AttributeCalls ==
    { [fn |-> "attribute",
       args |-> [rewards |-> r, operator_commission |-> c[1],
                 staker_commission |-> c[2], stake |-> st]] :
        r \in RewardsEvents, c \in Commissions, st \in Stakes }

\* A round ready for its attribution: an aggregator and one rewards event.
InitRewards ==
    /\ challenge = StoredChallenge
    /\ \E agg \in Aggregators :
        /\ contributions = agg.contributions
        /\ total_score = agg.total_score
        /\ winner = agg.winner
    /\ rewards_rx = << >>
    /\ rx = << >>
    /\ pc = "call"
    /\ last_hash_at = 1
    /\ response = NoResponse
    /\ log = {}
    /\ dispatched = 1
    /\ landed = 1
    /\ confirmed = TRUE
    /\ received = TRUE
    /\ written = 0
    /\ rx_closed = FALSE
    /\ rewards_closed = FALSE
    /\ attribution = "idle"
    /\ ingress = IngressIdle
    /\ call \in AttributeCalls

CallAttribute ==
    /\ pc = "call"
    /\ call.fn = "attribute"
    /\ Returns(Attributions(contributions, total_score, call.args.stake,
                            call.args.rewards, call.args.operator_commission,
                            call.args.staker_commission))
    /\ UNCHANGED << aggregator, rewards_rx, rx, last_hash_at, response, log,
                    history, rx_closed, rewards_closed, attribution, ingress >>

NextRewards == CallAttribute

SpecRewards == InitRewards /\ [][NextRewards]_vars

\* ----------------------------------------------------- fair scheduling
\* The chain calls of a step return Ok: check_for_reset reads the proof,
\* the bundle is confirmed, the rewards are apportioned and the next
\* challenge is installed.
CheckForResetOk ==
    CheckForReset /\ (pc' = "dispatch" \/ "irregular reset" \in log')
DispatchOk == Dispatch /\ pc' = "await_rewards"
AwaitRewardsOk == AwaitRewards /\ challenge'.challenge # challenge.challenge

\* The cutoff is reached during an insert: the time elapsed grows with
\* every pass of the inner loop.
InsertLast == Insert /\ pc' = "total_lock"

\* The tasks are scheduled whenever they can run: the driver and its timer,
\* and the handlers once their request has arrived (weak fairness of their
\* steps); the inner loop ends (strong fairness of the last insert); chain
\* calls that are made again and again eventually return Ok (strong fairness
\* of the Ok outcomes).  Nothing is assumed of the members: a request may
\* never arrive.
Fairness ==
    /\ WF_vars(Contribute)
    /\ WF_vars(ReadCutoff)
    /\ WF_vars(Recv)
    /\ WF_vars(Insert)
    /\ SF_vars(InsertLast)
    /\ WF_vars(Timeout)
    /\ WF_vars(ReadTotal)
    /\ WF_vars(WaitFirst)
    /\ WF_vars(EnterSubmit)
    /\ WF_vars(CheckForReset)
    /\ WF_vars(Dispatch)
    /\ WF_vars(AwaitRewards)
    /\ SF_vars(CheckForResetOk)
    /\ SF_vars(DispatchOk)
    /\ SF_vars(AwaitRewardsOk)

SpecProgress == Init /\ [][Next]_vars /\ Fairness

\* ================================================================ claims
\* Exact (not wrapping) sum of the scores of a set of contributions, with one
\* limb more than a u64.
Widen(a) == a \o << 0 >>

RECURSIVE ExactScoreSum(_)
ExactScoreSum(S) ==
    IF S = {} THEN ZeroLimbs(NumLimbs + 1)
    ELSE LET e == CHOOSE x \in S : TRUE
         IN AddLimbs(Widen(e.score), ExactScoreSum(S \ {e}))

\* A step of the driver that hands the contribution it has received from
\* the channel to insert.
Inserts == pc \in {"insert_lock", "first_lock"} /\ pc' # pc

\* The contribution the driver has received.
Handed == ingress.held[1]

MemberPresent(m) == \E e \in contributions : e.member = m

\* C1: the set holds at most one contribution per member; a dequeued
\* contribution of a member not yet in the set is added when it is inserted;
\* a dequeued contribution of a member already in the set changes neither
\* the set, nor total_score, nor winner; and a contribution stays in the set
\* until the whole set is cleared, so the one kept is the member's first.
C1_Dedup ==
    [][ /\ \A a, b \in contributions' : a.member = b.member => a = b
        /\ (Inserts /\ MemberPresent(Handed.member))
              => UNCHANGED << contributions, total_score, winner >>
        /\ (Inserts /\ ~MemberPresent(Handed.member))
              => contributions' = contributions \cup {Handed}
        /\ \A e \in contributions : contributions' = {} \/ e \in contributions'
      ]_vars

\* C1 witness: insert has just discarded a second contribution of a member.
C1_Witness ==
    /\ log = {"already received contribution"}
    /\ contributions # {}

WinnerIsMax ==
    contributions # {} =>
        /\ winner # None
        /\ \E e \in contributions :
            /\ e.solution = winner[1].solution
            /\ Difficulty(e.solution) = winner[1].difficulty
        /\ \A e \in contributions :
            Difficulty(e.solution) <= winner[1].difficulty

WinnerReplacedOnlyByGreater ==
    (winner # None /\ winner' # None /\ winner' # winner)
        => winner'[1].difficulty > winner[1].difficulty

\* C2: the winner is the solution of an accepted contribution whose
\* difficulty is the maximum over the set, and a winner is replaced only by
\* a strictly greater difficulty, so among equal maxima the first inserted
\* stays.
C2_WinnerMonotonic == [] WinnerIsMax /\ [][WinnerReplacedOnlyByGreater]_vars

\* C2 witness: two accepted contributions tie on the maximum difficulty.
C2_Witness ==
    /\ winner # None
    /\ \E a, b \in contributions :
        /\ a.member # b.member
        /\ Difficulty(a.solution) = winner[1].difficulty
        /\ Difficulty(b.solution) = winner[1].difficulty

\* C3 (as claimed): total_score is the sum of the scores of the set.
C3_TotalScoreIsSum == Widen(total_score) = ExactScoreSum(contributions)

\* C4: winner is present iff the contribution set is not empty.
C4_WinnerIffNonEmpty == (winner # None) <=> (contributions # {})

\* C4 witness: a reset has failed after update_challenge installed the next
\* challenge: the set still holds contributions of the previous one.
C4_Witness ==
    /\ "error" \in log
    /\ winner # None
    /\ \E e \in contributions : e.solution.c # challenge.challenge

\* C5 (as claimed): never two bundles for the same challenge.
C5_ExactlyOneBundle == dispatched <= 1

\* C5 (amended): of the bundles dispatched for one challenge at most one
\* lands on chain.
C5_AtMostOneLands == landed <= 1

\* C5 witness: a second bundle has been dispatched for a challenge, and one
\* of the two has landed.
C5_Witness == dispatched = 2 /\ landed = 1

\* The rewards event of the stored challenge has been received, before this
\* step or in it.
RewardsOfRoundReceived ==
    \/ received
    \/ /\ rewards_rx # << >>
       /\ rewards_rx' = Tail(rewards_rx)
       /\ Head(rewards_rx).round = challenge.challenge

Rotates == challenge'.challenge # challenge.challenge

\* C6 (as claimed): the next challenge is installed only after the
\* submission of the stored one was confirmed and its rewards event received.
C6_StrictlySerialized ==
    [][Rotates => confirmed /\ RewardsOfRoundReceived]_vars

\* C6 (amended): the next challenge is installed only after a bundle of the
\* stored one has landed on chain; unless the rotation is an irregular reset,
\* the submission was confirmed and a rewards event is received before it.
C6_SerializedByChain ==
    [][Rotates =>
        /\ landed >= 1
        /\ \/ pc = "check_for_reset"
           \/ /\ pc = "await_rewards"
              /\ confirmed
              /\ rewards_rx # << >> /\ rewards_rx' = Tail(rewards_rx)
      ]_vars

\* C6 witness: an irregular reset has installed the next challenge while the
\* rewards event of the previous round is still in the rewards channel.
C6_Witness ==
    /\ "irregular reset" \in log
    /\ rewards_rx # << >>
    /\ Head(rewards_rx).round + 1 = challenge.challenge

\* C7: the attribution of a challenge is handed to the database at most once.
C7_WrittenAtMostOnce == written <= 1

\* C7 witness: the attribution of the stored challenge has been written and
\* the rotation after it has failed, so the driver retries the round.
C7_Witness ==
    /\ written = 1
    /\ "error" \in log
    /\ pc \notin SubmitStates

\* A step of submit_and_reset that took the irregular-reset branch.
IrregularReset == pc = "check_for_reset" /\ "irregular reset" \in log'

\* C8 (as claimed): an irregular reset dispatches nothing, receives no
\* rewards event, writes no attribution, and leaves submit_and_reset; when it
\* installs the new challenge the contributions are cleared.
C8_IrregularReset ==
    [][IrregularReset =>
        /\ last_hash_at' = last_hash_at
        /\ rewards_rx' = rewards_rx
        /\ dispatched' \in {dispatched, 0}
        /\ written' \in {written, 0}
        /\ pc' \notin {"dispatch", "await_rewards"}
        /\ challenge' # challenge =>
              /\ contributions' = {}
              /\ U64IsZero(total_score')
              /\ winner' = None
      ]_vars

\* C9 (as claimed): Submitting is entered after the cutoff only with
\* total_score > 0; with total_score = 0 the driver waits for the first
\* contribution and enters Submitting with that contribution alone.
C9_CutoffGuard ==
    [][ /\ (pc = "total_lock" /\ pc' = "submit_lock")
              => ~U64IsZero(total_score)
        /\ (pc = "total_lock" /\ pc' = "wait_first")
              => U64IsZero(total_score)
        /\ (pc = "submit_lock" /\ pc' = "check_for_reset")
              => ~U64IsZero(total_score')
        /\ (pc = "first_lock" /\ pc' = "check_for_reset")
              => contributions' = {Handed}
        /\ (pc # "check_for_reset" /\ pc' = "check_for_reset")
              => pc \in {"submit_lock", "first_lock"}
      ]_vars

\* C10: a request that fails a check gets the status of the first check it
\* fails and sends nothing on the channel; a request that passes them all is
\* sent and answered 200 (or waits in its send if the channel is full); and
\* a handler never changes the aggregator.
C10_ValidationFrame ==
    [][ /\ \A p \in Payloads(challenge) : contribute(p) =>
              /\ UNCHANGED aggregator
              /\ ~p.signature => (response' = 401 /\ rx' = rx)
              /\ (p.signature /\ p.solution.d < challenge.min_difficulty)
                    => (response' = 400 /\ rx' = rx)
              /\ (p.signature /\ p.solution.d >= challenge.min_difficulty
                    /\ p.solution.c # challenge.challenge)
                    => (response' = 400 /\ rx' = rx)
              /\ (p.signature /\ p.solution.d >= challenge.min_difficulty
                    /\ p.solution.c = challenge.challenge)
                    => IF ~Full(rx)
                       THEN /\ response' = 200
                            /\ rx' = Append(rx, NewContribution(p))
                       ELSE /\ rx' = rx
                            /\ response' = NoResponse
        /\ (\E h \in Handlers : Arrive(h)) => UNCHANGED << aggregator, rx >>
      ]_vars

\* C10 witness: a request has been rejected for its signature while a
\* contribution of the round is in the set.
C10_Witness == response = 401 /\ contributions # {}

\* C16 (as claimed): whenever the stored challenge is replaced, the same step
\* leaves contributions empty, total_score 0 and winner None.
C16_AtomicRotation ==
    [][Rotates =>
        /\ contributions' = {}
        /\ total_score' = U64Zero
        /\ winner' = None
      ]_vars

\* A step of submit_and_reset in which a bundle was dispatched and the
\* submission did not return a confirmed signature.
SubmitFails ==
    /\ pc = "dispatch"
    /\ dispatched' = dispatched + 1
    /\ ~confirmed'

\* The rewards channel lost no event in this step.
NoRewardsConsumed ==
    /\ Len(rewards_rx') >= Len(rewards_rx)
    /\ SubSeq(rewards_rx', 1, Len(rewards_rx)) = rewards_rx

\* C17: when the submission fails, submit_and_reset returns the error and
\* the round is not reset: the aggregator is unchanged, no rewards event is
\* consumed and no attribution is written.
C17_FailedSubmitKeepsRound ==
    [][SubmitFails =>
        /\ "error" \in log'
        /\ pc' # "await_rewards"
        /\ UNCHANGED aggregator
        /\ NoRewardsConsumed
        /\ UNCHANGED << received, written >>
      ]_vars

\* C17 witness: a bundle was dispatched, the submission returned an error,
\* and the driver is back in the loop with the contributions of the round.
C17_Witness ==
    /\ dispatched >= 1
    /\ ~confirmed
    /\ log = {"error"}
    /\ pc \notin SubmitStates
    /\ contributions # {}
    /\ winner # None

C19_PersistenceFailureStillRotates ==
    [][(pc = "await_rewards" /\ "db_err" \in log') => Rotates]_vars

\* recv on the contribution channel returns None to the waiting driver.
IngressRecvNone == rx_closed /\ rx = << >> /\ pc \in {"collecting", "wait_first"}

\* A step of the round driver.
DriverSteps == pc' # pc \/ log' # log

\* C13 (as claimed): when the contribution channel is closed, the driver
\* returns the internal error from the state it waits in, the timed race or
\* the untimed wait for the first contribution.
C13_IngressClosedIsFatal ==
    [][(IngressRecvNone /\ DriverSteps) =>
          /\ pc' = "exited"
          /\ log' = {"contribution channel closed"}
      ]_vars

\* C14 (as claimed): when the rewards channel is closed while the driver
\* awaits the rewards event, the driver stops.
C14_RewardsClosedIsFatal ==
    [][(pc = "await_rewards" /\ rewards_closed /\ rewards_rx = << >>
            /\ DriverSteps)
          => pc' = "exited"
      ]_vars

\* The steps the driver takes without the lock: a receive from the channel,
\* the expiry of its timer.
DriverMovesUnlocked ==
    /\ pc \in {"collecting", "wait_first"}
    /\ pc' \in {"insert_lock", "total_lock", "first_lock"}

\* C18: while the attribution task is in its on-chain call it holds the
\* aggregator lock: submit_and_reset is not in progress and does not begin,
\* nothing is inserted or reset, no handler reads the challenge, sends or
\* answers, and the driver does no more than receive from the channel or
\* see its timer expire, and then wait for the lock; the lock is free again
\* when the call has returned.
C18_AttributionExcludes ==
    [][ /\ attribution = "attributing" =>
              /\ ingress.holder = AttributionTask
              /\ pc \notin SubmitStates /\ pc' \notin SubmitStates
              /\ UNCHANGED << aggregator, last_hash_at, rewards_rx >>
              /\ response' = NoResponse
              /\ rx' = rx \/ (rx # << >> /\ rx' = Tail(rx))
              /\ pc' = pc \/ DriverMovesUnlocked
              /\ \A h \in Handlers :
                    ingress'.handlers[h].st \in {ingress.handlers[h].st, "queued"}
        /\ attribution' # "attributing" => ingress'.holder # AttributionTask
      ]_vars

\* C18 witness: the attribution call is in progress while a validated
\* contribution waits in the channel, another is in the set, and the driver,
\* a received contribution in hand, and a handler wait for the lock.
C18_Witness ==
    /\ attribution = "attributing"
    /\ rx # << >>
    /\ contributions # {}
    /\ pc = "insert_lock"
    /\ \E h \in Handlers : ingress.handlers[h].st = "queued"

Returned(fn) == pc = "returned" /\ call.fn = fn

\* C15: update_challenge makes at most max_retries fetch attempts; it
\* succeeds at the first attempt that observes pool.last_hash_at different
\* from the stored value, installing the chain's challenge; when max_retries
\* attempts observe no advance it returns the error; and whenever it returns
\* an error the stored challenge is unchanged.
C15_BoundedRetries ==
    Returned("update_challenge") =>
        LET a == call.args
            r == call.result
            advanced == last_hash_at # StoredChallenge.lash_hash_at
            rpc_failed == a.final = "rpc_err" /\ a.stale < max_retries
        IN /\ r.attempts <= max_retries
           /\ r.ok <=> (advanced /\ a.stale < max_retries /\ a.final = "fresh")
           /\ r.ok => /\ r.attempts = a.stale + 1
                      /\ challenge.lash_hash_at = last_hash_at
                      /\ challenge.challenge = ChallengeAt(last_hash_at)
           /\ (~r.ok /\ ~rpc_failed) => r.attempts = max_retries
           /\ ~r.ok => challenge = StoredChallenge

\* C15 witness: the advance was first observed at the last allowed attempt.
C15_Witness ==
    /\ Returned("update_challenge")
    /\ call.result.ok
    /\ call.result.attempts = max_retries

BusBalance(accounts, i) == IF accounts[i] = None THEN 0 ELSE accounts[i][1]

\* C12: the bus find_bus returns has a rewards balance at least that of the
\* randomly seeded bus (and of every other fetched bus); when every balance
\* is zero or unreadable it is the seeded bus.
C12_BusSelection ==
    Returned("find_bus") =>
        LET accounts == call.args.accounts
            top_bus == call.result
        IN /\ top_bus \in 1..MaxBuses
           /\ BusBalance(accounts, top_bus) >= BusBalance(accounts, call.args.bus_index)
           /\ \A i \in 1..MaxBuses :
                BusBalance(accounts, top_bus) >= BusBalance(accounts, i)
           /\ (\A i \in 1..MaxBuses : BusBalance(accounts, i) = 0)
                => top_bus = call.args.bus_index

\* C12 witness: the seeded bus is readable with a positive balance and
\* another bus, holding more, is returned.
C12_Witness ==
    /\ Returned("find_bus")
    /\ call.result # call.args.bus_index
    /\ BusBalance(call.args.accounts, call.args.bus_index) > 0

\* Exact sums, with limbs to spare above a u64.
WideLimbs == NumLimbs + 2
Wide(a) == Pad(a, WideLimbs)

RECURSIVE SumShares(_, _)
SumShares(shares, D) ==
    IF D = {} THEN ZeroLimbs(WideLimbs)
    ELSE LET x == CHOOSE y \in D : TRUE
         IN AddLimbs(Wide(shares[x]), SumShares(shares, D \ {x}))

SumAll(shares) == SumShares(shares, DOMAIN shares)

BoostReward(b) == IF b = None THEN ZeroLimbs(WideLimbs) ELSE Wide(b[1].reward)

\* base + boost_1.reward + boost_2.reward + boost_3.reward
RewardsTotal(rewards) ==
    AddLimbs(AddLimbs(Wide(rewards.base), BoostReward(rewards.boost_1)),
             AddLimbs(BoostReward(rewards.boost_2), BoostReward(rewards.boost_3)))

AttributedTotal(result) ==
    AddLimbs(AddLimbs(SumAll(result.miners), Wide(result.operator)),
             AddLimbs(SumAll(result.boost_1),
                      AddLimbs(SumAll(result.boost_2), SumAll(result.boost_3))))

\* M + S + 4: the miners and the stakers with an attribution.
Slack(result) ==
    FromInt(Cardinality(DOMAIN result.miners)
            + Cardinality(DOMAIN result.boost_1)
            + Cardinality(DOMAIN result.boost_2)
            + Cardinality(DOMAIN result.boost_3) + 4, WideLimbs)

\* C11 (as claimed): the attributions of one rewards event sum to at most
\* base + boost_1.reward + boost_2.reward + boost_3.reward and fall short of
\* it by at most M + S + 4.
C11_Conservation ==
    (Returned("attribute") /\ call.result.ok) =>
        LET attributed == AttributedTotal(call.result)
            total == RewardsTotal(call.args.rewards)
        IN /\ ~Less(total, attributed)
           /\ ~Less(Slack(call.result), SubLimbs(total, attributed))

\* x * percent / 100 truncated, computed without wrap-around.
ExactShare(x, percent) ==
    Wide(DivLimbs(MulLimbs(x, FromInt(percent, 1)), FromInt(Percent, 1)))

ExactBoostShare(b, percent) ==
    IF b = None THEN ZeroLimbs(WideLimbs) ELSE ExactShare(b[1].reward, percent)

NoBoosts(rewards) ==
    rewards.boost_1 = None /\ rewards.boost_2 = None /\ rewards.boost_3 = None

\* C21 (as claimed): the reward arithmetic has no intermediate overflow: the
\* operator share is base * op / 100 plus boost.reward * op / 100 for every
\* present boost, and the miner pot (the attribution of a round's only miner
\* when no boost is present) is base * (100 - op) / 100, both exact.
C21_NoIntermediateOverflow ==
    Returned("attribute") =>
        LET rewards == call.args.rewards
            op == call.args.operator_commission
        IN /\ Wide(call.result.operator) =
                AddLimbs(AddLimbs(ExactShare(rewards.base, op),
                                  ExactBoostShare(rewards.boost_1, op)),
                         AddLimbs(ExactBoostShare(rewards.boost_2, op),
                                  ExactBoostShare(rewards.boost_3, op)))
           /\ (NoBoosts(rewards) /\ Cardinality(contributions) = 1) =>
                \A m \in DOMAIN call.result.miners :
                    Wide(call.result.miners[m]) =
                        ExactShare(rewards.base, Percent - op)

\* C22 (as claimed): every contribution inserted into the set was validated
\* against the challenge that is current when it is inserted; none left in
\* the ingress channel by round N is credited to round N + 1.
C22_NoStaleContribution ==
    [][\A e \in contributions' \ contributions :
          IsValidDigest(challenge'.challenge, e.solution)]_vars

\* C23 (as claimed): the rewards event from which a round's attribution is
\* computed is the event of that round's own settlement, never one left in
\* the rewards channel by an earlier settlement.
C23_RewardsOfSameRound ==
    [][(pc = "await_rewards" /\ rewards_rx # << >> /\ rewards_rx' = Tail(rewards_rx))
          => Head(rewards_rx).round = challenge.challenge]_vars

\* The lines of attestation(): one per contribution of the set.
Attested == contributions

\* The keys of the miner vector of rewards_distribution.
MinerEntries == MinerKeys(contributions)

\* From the selection of the winner to the computation of the attribution.
InSubmission == pc \in {"dispatch", "await_rewards"}

SnapshotConsistent ==
    InSubmission =>
        /\ winner # None
        /\ \E c \in Attested : c.solution = winner[1].solution
        /\ Cardinality(MinerEntries) = Cardinality(Attested)
        /\ \A c \in Attested : c.member \in MinerEntries

\* C24: within one submit_and_reset the submitted winner belongs to the
\* attested contribution set, the miner vector has exactly one entry per
\* attested contribution, and the set and the winner do not change between
\* the selection of the winner and the computation of the attribution.
C24_SnapshotConsistency ==
    /\ [] SnapshotConsistent
    /\ [][(InSubmission /\ pc' \in {"dispatch", "await_rewards"}) =>
             (contributions' = contributions /\ winner' = winner)]_vars

\* C24 witness: the rewards of a round of two contributions are awaited, the
\* winner being the later and more difficult of the two.
C24_Witness ==
    /\ pc = "await_rewards"
    /\ Cardinality(contributions) = 2
    /\ winner # None
    /\ winner[1].difficulty > MinDifficulty

\* A handler holds the lock and waits in its send for room in the channel.
HandlerWaitsForSpace(h) ==
    /\ ingress.holder = Handler(h)
    /\ ingress.handlers[h].st = "sending"
    /\ Full(rx)

\* The driver waits for the lock: to insert the contribution it has
\* received, to read cutoff_time or total_score, or to submit.
DriverWaitsForLock ==
    /\ pc \in {"cutoff_lock", "insert_lock", "total_lock", "submit_lock",
               "first_lock"}
    /\ ingress.holder # Driver

\* C25 (as claimed): with handlers that hold the lock while sending on a
\* bounded channel, no reachable state has a handler waiting for channel
\* space while the driver waits for the lock that handler holds.
C25_NoIngressDeadlock ==
    ~ \E h \in Handlers : HandlerWaitsForSpace(h) /\ DriverWaitsForLock

\* A round with a contribution inserted, the driver in its loop.
RoundHasContribution ==
    contributions # {} /\ pc \notin SubmitStates

\* The driver is about to dispatch the winner's bundle, or has performed an
\* irregular reset.
SubmitsOrResets == pc = "dispatch" \/ "irregular reset" \in log

\* No chain call of the driver has returned Err.
NoChainError == "error" \notin log

\* The bundle of challenge n was confirmed (the chain has advanced) and a
\* rewards event is delivered.
RewardsDelivered(n) ==
    pc = "await_rewards" /\ rewards_rx # << >> /\ challenge.challenge = n

\* The driver is back in its loop on a challenge after n.
ReentersCollecting(n) ==
    challenge.challenge > n /\ pc \notin SubmitStates

\* C26 (as claimed): with fair scheduling and chain calls that return, once
\* a contribution has been inserted in a round the driver eventually leaves
\* Collecting and dispatches a submission or performs an irregular reset;
\* and with a delivered rewards event and an advanced last_hash_at it
\* eventually re-enters Collecting on the next challenge.
C26_RoundProgress ==
    ([] NoChainError) =>
        /\ RoundHasContribution ~> SubmitsOrResets
        /\ \A n \in 0..MaxRounds : RewardsDelivered(n) ~> ReentersCollecting(n)

====
